---- MODULE Spec2Model ----
(***************************************************************************)
(* The UisControllerContract chaincode (src/src/contracts/controller.ts)   *)
(* as a state machine over the ledger's flat key/value world state.        *)
(*                                                                         *)
(* Every transaction is an operator from (world state, caller, arguments)  *)
(* to the pair (committed world state, returned value or thrown error).    *)
(* A transaction that throws commits nothing: the ledger applies the write *)
(* set of a transaction only when the handler returns.                     *)
(***************************************************************************)
EXTENDS Integers, Sequences, FiniteSets, TLC

\* ------------------------------------------------------------------ bounds
NumOrgs == 2
NumClients == 2
MaxPubs == 2
\* the ledger's current logical time
LedgerTime == 2

\* --------------------------------------------------------- program constants
WRITE == 1
READ == 16
DELETE == 256

\* -1 means never expired
NEVER == -1

\* ------------------------------------------------------------- input sets
MspName == <<"Org1MSP", "Org2MSP", "Org3MSP", "Org4MSP">>
ClientName == <<"x509::CN=client1", "x509::CN=client2", "x509::CN=client3", "x509::CN=client4">>

Orgs == {MspName[i] : i \in 1..NumOrgs}
\* a caller: its unique client identity (getID) and its organization (getMSPID)
Callers == {[id |-> ClientName[i], msp |-> MspName[((i - 1) % NumOrgs) + 1]] : i \in 1..NumClients}
Users == {"u1"}
ChannelName == <<"c1", "c2">>
Channels == {ChannelName[i] : i \in 1..Len(ChannelName)}
Datasets == {"d1"}
Names == {"n1", "n2"}
Accesses == {READ, WRITE}

\* rank of an org id in ascending lexical order of the ids
OrgRank(o) == CHOOSE i \in 1..Len(MspName) : MspName[i] = o
ChannelRank(c) == CHOOSE i \in 1..Len(ChannelName) : ChannelName[i] = c

\* ------------------------------------------------------------ ledger keys
OWNER == <<"owner">>
IS_INITIALIZED == <<"isInitialized">>
CHANNEL_TO_PUBS == <<"channelToPubs">>
TRUE_VALUE == "true"
ORG_KEY_PREFIX == "org"
USER_KEY_PREFIX == "user"

getOrgKey(id) == <<ORG_KEY_PREFIX, id>>
getUserKey(id) == <<USER_KEY_PREFIX, id>>

\* ---------------------------------------------------------------- state
VARIABLES
  state,  \* the committed world state: a map from the keys present to their values
  call,   \* the last transaction invoked: its name, caller and arguments
  ret,    \* what that transaction returned or threw
  pending \* the transactions simulated and not yet committed, in order of simulation

vars == <<state, call, ret, pending>>

\* ------------------------------------------------------- JSON object maps
EmptyMap == [k \in {} |-> TRUE]
\* obj[k] = v
Put(obj, k, v) == [x \in (DOMAIN obj) \cup {k} |-> IF x = k THEN v ELSE obj[x]]
\* deleteState(k)
Del(obj, k) == [x \in (DOMAIN obj) \ {k} |-> obj[x]]
\* if (obj[k]) on a map of booleans: an absent key reads undefined, which is falsy
Truthy(obj, k) == k \in DOMAIN obj /\ obj[k]

Has(st, key) == key \in DOMAIN st
\* getState(key).toString() of a string value: "" when the key is absent
getString(st, key) == IF Has(st, key) THEN st[key] ELSE ""

\* ------------------------------------------------------------- outcomes
Return(st, num, str, docs) ==
  [state |-> st, ret |-> [status |-> "ok", num |-> num, str |-> str, docs |-> docs]]
Done(st) == Return(st, 0, "", <<>>)
\* a throw aborts the transaction: the world state stays st0, the state before it
Throw(st0, error) ==
  [state |-> st0, ret |-> [status |-> error, num |-> 0, str |-> "", docs |-> <<>>]]

NoCall == [op |-> "", caller |-> [id |-> "", msp |-> ""], args |-> <<>>, access |-> 0]
NoRet == [status |-> "", num |-> 0, str |-> "", docs |-> <<>>]

\* sortKeysRecursive sorts every array of the value it is given; the publisher
\* lists are arrays of org ids, sorted ascending
RECURSIVE InsertSorted(_, _)
InsertSorted(list, o) ==
  IF list = <<>> THEN <<o>>
  ELSE IF OrgRank(o) < OrgRank(Head(list)) THEN <<o>> \o list
  ELSE <<Head(list)>> \o InsertSorted(Tail(list), o)

\* a dataset entry as JSON: the plain number updateOrgDatasetAccess writes, or the
\* grant object {access, expiredAt} queryAccessOnDataset reads
Num(a) == [shape |-> "number", access |-> a, expiredAt |-> NEVER]
Grant(a, e) == [shape |-> "grant", access |-> a, expiredAt |-> e]

\* the orgs of a user record as JSON: the plain object {[orgId]: boolean} of the
\* User type, or the array of org ids that for...of can iterate
Obj(m) == [shape |-> "object", map |-> m, list |-> <<>>]
Arr(l) == [shape |-> "array", map |-> EmptyMap, list |-> l]

\* --------------------------------------------------------- transactions
\* faulty variant: the initialization marker is not checked
init_NoGuard(st, caller) ==
  Done(Put(Put(st, OWNER, caller.id), IS_INITIALIZED, TRUE_VALUE))

\* faulty variant: the owner recorded is the caller's organization, not its identity
init_StoresMsp(st, caller) ==
  IF getString(st, IS_INITIALIZED) # ""
  THEN Throw(st, "AlreadyInitialized")
  ELSE Done(Put(Put(st, OWNER, caller.msp), IS_INITIALIZED, TRUE_VALUE))

init(st, caller) ==
  IF getString(st, IS_INITIALIZED) # ""
  THEN Throw(st, "AlreadyInitialized")
  ELSE Done(Put(Put(st, OWNER, caller.id), IS_INITIALIZED, TRUE_VALUE))

\* faulty variant: any caller passes once an owner is stored
onlyOwner_AnyCaller(st, caller) == getString(st, OWNER) # ""

\* faulty variant: the guard also passes while no owner is stored
onlyOwner_UnsetPasses(st, caller) ==
  getString(st, OWNER) = "" \/ getString(st, OWNER) = caller.id

\* TRUE when the guard passes, FALSE when it throws "Ownership: no permission"
onlyOwner(st, caller) == getString(st, OWNER) = caller.id

owner(st, caller) == Return(st, 0, getString(st, OWNER), <<>>)

addOrg(st, caller, id, name, access) ==
  IF ~onlyOwner(st, caller) THEN Throw(st, "PermissionDenied")
  ELSE IF ~Has(st, getOrgKey(id)) THEN Throw(st, "NotFound")
  ELSE Throw(st, "AlreadyExists")

\* faulty variant: the record is rebuilt from its scalar fields, its maps emptied
updateOrgName_Resets(st, caller, id, name) ==
  IF ~onlyOwner(st, caller) THEN Throw(st, "PermissionDenied")
  ELSE IF ~Has(st, getOrgKey(id)) THEN Throw(st, "NotFound")
  ELSE Done(Put(st, getOrgKey(id),
                [id |-> id, name |-> name, access |-> st[getOrgKey(id)].access,
                 users |-> EmptyMap, pubs |-> EmptyMap, subs |-> EmptyMap,
                 datasets |-> EmptyMap]))

updateOrgName(st, caller, id, name) ==
  IF ~onlyOwner(st, caller) THEN Throw(st, "PermissionDenied")
  ELSE IF ~Has(st, getOrgKey(id)) THEN Throw(st, "NotFound")
  ELSE Done(Put(st, getOrgKey(id), [st[getOrgKey(id)] EXCEPT !.name = name]))

updateOrgAccess(st, caller, id, access) ==
  IF ~onlyOwner(st, caller) THEN Throw(st, "PermissionDenied")
  ELSE IF ~Has(st, getOrgKey(id)) THEN Throw(st, "NotFound")
  ELSE Done(Put(st, getOrgKey(id), [st[getOrgKey(id)] EXCEPT !.access = access]))

updateOrgDatasetAccess(st, caller, id, dataset, access) ==
  IF ~onlyOwner(st, caller) THEN Throw(st, "PermissionDenied")
  ELSE IF ~Has(st, getOrgKey(id)) THEN Throw(st, "NotFound")
  ELSE LET org == st[getOrgKey(id)]
       IN Done(Put(st, getOrgKey(id),
                   [org EXCEPT !.datasets = Put(org.datasets, dataset, Num(access))]))

\* faulty variant: the record is loaded first, so a missing org is an error
removeOrg_Checked(st, caller, id) ==
  IF ~onlyOwner(st, caller) THEN Throw(st, "PermissionDenied")
  ELSE IF ~Has(st, getOrgKey(id)) THEN Throw(st, "NotFound")
  ELSE Done(Del(st, getOrgKey(id)))

removeOrg(st, caller, id) ==
  IF ~onlyOwner(st, caller) THEN Throw(st, "PermissionDenied")
  ELSE Done(Del(st, getOrgKey(id)))

\* getState(orgKey).toString(): the stored record, or the empty string
getOrg(st, caller, id) ==
  IF Has(st, getOrgKey(id)) THEN Return(st, 0, "", <<st[getOrgKey(id)]>>)
  ELSE Return(st, 0, "", <<>>)

\* faulty variant: the write made before the throw is committed
addUser_PartialCommit(st, caller, id, name, email, phone) ==
  LET orgKey == getOrgKey(caller.msp)
      userKey == getUserKey(id)
  IN IF ~Has(st, orgKey) THEN Throw(st, "NotFound")
     ELSE LET org == st[orgKey]
              st1 == Put(st, orgKey, [org EXCEPT !.users = Put(org.users, id, TRUE)])
          IN IF Has(st, userKey) THEN Throw(st1, "TypeError")
             ELSE Done(Put(st1, userKey,
                           [id |-> id, name |-> name, email |-> email, phone |-> phone,
                            orgs |-> Obj(Put(EmptyMap, "orgId", TRUE))]))

addUser(st, caller, id, name, email, phone) ==
  LET orgId == caller.msp
      orgKey == getOrgKey(orgId)
      userKey == getUserKey(id)
  IN IF ~Has(st, orgKey) THEN Throw(st, "NotFound")
     ELSE LET org == st[orgKey]
              st1 == Put(st, orgKey, [org EXCEPT !.users = Put(org.users, id, TRUE)])
          IN IF Has(st, userKey)
             \* the record is updated in a block-scoped `user`; the outer `user`
             \* that is serialized is still undefined and Buffer.from throws
             THEN Throw(st, "TypeError")
             \* { orgId: true } is the literal key "orgId", not the caller's org
             ELSE Done(Put(st1, userKey,
                           [id |-> id, name |-> name, email |-> email, phone |-> phone,
                            orgs |-> Obj(Put(EmptyMap, "orgId", TRUE))]))

\* faulty variant: the membership flag is not tested before it is cleared
removeUser_Unconditional(st, caller, id) ==
  LET orgKey == getOrgKey(caller.msp)
  IN IF ~Has(st, orgKey) THEN Throw(st, "NotFound")
     ELSE Done(Put(st, orgKey,
                   [st[orgKey] EXCEPT !.users = Put(st[orgKey].users, id, FALSE)]))

removeUser(st, caller, id) ==
  LET orgKey == getOrgKey(caller.msp)
  IN IF ~Has(st, orgKey) THEN Throw(st, "NotFound")
     ELSE LET org == st[orgKey]
          IN IF Truthy(org.users, id)
             \* the user record is loaded and changed in memory, never written
             THEN Done(Put(st, orgKey, [org EXCEPT !.users = Put(org.users, id, FALSE)]))
             ELSE Done(st)

\* for (const userId of org.users): org.users is a plain object, not iterable
getUsers(st, caller, orgId) ==
  IF ~Has(st, getOrgKey(orgId)) THEN Throw(st, "NotFound")
  ELSE Throw(st, "TypeError")

\* faulty variant: a missing user is created empty and returned
getUser_CreatesMissing(st, caller, orgId, userId) ==
  IF ~Has(st, getUserKey(userId))
  THEN LET user == [id |-> userId, name |-> "", email |-> "", phone |-> "",
                    orgs |-> Obj(EmptyMap)]
       IN Return(Put(st, getUserKey(userId), user), 0, "", <<user>>)
  ELSE Return(st, 0, "", <<st[getUserKey(userId)]>>)

getUser(st, caller, orgId, userId) ==
  IF ~Has(st, getUserKey(userId)) THEN Throw(st, "NotFound")
  ELSE Return(st, 0, "", <<st[getUserKey(userId)]>>)

\* faulty variant: a caller whose org has no record is still added to the index
publishDatasetTo_SkipsOrg(st, caller, dataset, channel, access) ==
  LET orgId == caller.msp
      orgKey == getOrgKey(orgId)
      st1 == IF Has(st, orgKey)
             THEN Put(st, orgKey,
                      [st[orgKey] EXCEPT !.pubs = Put(st[orgKey].pubs, channel, TRUE)])
             ELSE st
      channelToPubs ==
        IF ~Has(st, CHANNEL_TO_PUBS) THEN Put(EmptyMap, channel, <<orgId>>)
        ELSE IF channel \in DOMAIN st[CHANNEL_TO_PUBS]
        THEN Put(st[CHANNEL_TO_PUBS], channel,
                 InsertSorted(st[CHANNEL_TO_PUBS][channel], orgId))
        ELSE Put(st[CHANNEL_TO_PUBS], channel, <<orgId>>)
  IN Done(Put(st1, CHANNEL_TO_PUBS, channelToPubs))

\* faulty variant: a channel without a list replaces the index by a new one
publishDatasetTo_FreshIndex(st, caller, dataset, channel, access) ==
  LET orgId == caller.msp
      orgKey == getOrgKey(orgId)
  IN IF ~Has(st, orgKey) THEN Throw(st, "NotFound")
     ELSE LET org == st[orgKey]
              st1 == Put(st, orgKey, [org EXCEPT !.pubs = Put(org.pubs, channel, TRUE)])
              channelToPubs ==
                IF Has(st, CHANNEL_TO_PUBS) /\ channel \in DOMAIN st[CHANNEL_TO_PUBS]
                THEN Put(st[CHANNEL_TO_PUBS], channel,
                         InsertSorted(st[CHANNEL_TO_PUBS][channel], orgId))
                ELSE Put(EmptyMap, channel, <<orgId>>)
          IN Done(Put(st1, CHANNEL_TO_PUBS, channelToPubs))

publishDatasetTo(st, caller, dataset, channel, access) ==
  LET orgId == caller.msp
      orgKey == getOrgKey(orgId)
  IN IF ~Has(st, orgKey) THEN Throw(st, "NotFound")
     ELSE LET org == st[orgKey]
              st1 == Put(st, orgKey, [org EXCEPT !.pubs = Put(org.pubs, channel, TRUE)])
              channelToPubs ==
                IF ~Has(st, CHANNEL_TO_PUBS) THEN Put(EmptyMap, channel, <<orgId>>)
                ELSE IF channel \in DOMAIN st[CHANNEL_TO_PUBS]
                THEN Put(st[CHANNEL_TO_PUBS], channel,
                         InsertSorted(st[CHANNEL_TO_PUBS][channel], orgId))
                ELSE Put(st[CHANNEL_TO_PUBS], channel, <<orgId>>)
          IN Done(Put(st1, CHANNEL_TO_PUBS, channelToPubs))

\* // TODO: the body is empty
revokePublishedDataset(st, caller, dataset, channel, access) == Done(st)

subscribe(st, caller, channel) ==
  LET orgKey == getOrgKey(caller.msp)
  IN IF ~Has(st, orgKey) THEN Throw(st, "NotFound")
     ELSE Done(Put(st, orgKey,
                   [st[orgKey] EXCEPT !.subs = Put(st[orgKey].subs, channel, TRUE)]))

\* faulty variant: the subscription entry is deleted instead of set to false
revokeSubscribing_Deletes(st, caller, channel) ==
  LET orgKey == getOrgKey(caller.msp)
  IN IF ~Has(st, orgKey) THEN Throw(st, "NotFound")
     ELSE Done(Put(st, orgKey,
                   [st[orgKey] EXCEPT !.subs = Del(st[orgKey].subs, channel)]))

revokeSubscribing(st, caller, channel) ==
  LET orgKey == getOrgKey(caller.msp)
  IN IF ~Has(st, orgKey) THEN Throw(st, "NotFound")
     ELSE Done(Put(st, orgKey,
                   [st[orgKey] EXCEPT !.subs = Put(st[orgKey].subs, channel, FALSE)]))

\* a value a handler returns that is the JavaScript undefined
ReturnUndefined(st) ==
  [state |-> st, ret |-> [status |-> "undefined", num |-> 0, str |-> "", docs |-> <<>>]]
\* a loop of the traversal that ended without returning
Continue(st) == [state |-> st, ret |-> NoRet]
IsContinue(r) == r.ret = NoRet

\* Object.keys(org.subs): the keys in the order of the stored JSON text, which
\* every write sorts ascending
ObjectKeys(subs) == SelectSeq(ChannelName, LAMBDA c : c \in DOMAIN subs)

\* lines 412-420: for (const pubId of pubs), from position i on
RECURSIVE pubLoop(_, _, _, _)
pubLoop(st, pubs, i, dataset) ==
  IF i > Len(pubs) THEN Continue(st)
  \* line 415: getObjectByKey throws when the publisher has no record
  ELSE IF ~Has(st, getOrgKey(pubs[i])) THEN Throw(st, "NotFound")
  ELSE LET pub == st[getOrgKey(pubs[i])]
       IN IF dataset \in DOMAIN pub.datasets
          \* line 418 reads .access of the entry: of a number it is undefined
          THEN IF pub.datasets[dataset].shape = "grant"
               THEN Return(st, pub.datasets[dataset].access, "", <<>>)
               ELSE ReturnUndefined(st)
          ELSE pubLoop(st, pubs, i + 1, dataset)

\* lines 410-421: for (const channel of Object.keys(org.subs)), from position j on
RECURSIVE channelLoop(_, _, _, _)
channelLoop(st, channels, j, dataset) ==
  IF j > Len(channels) THEN Continue(st)
  \* line 411-412: channelToPubs[channel] is undefined for a channel without
  \* a list, and for...of undefined throws
  ELSE IF channels[j] \notin DOMAIN st[CHANNEL_TO_PUBS] THEN Throw(st, "TypeError")
  ELSE LET r == pubLoop(st, st[CHANNEL_TO_PUBS][channels[j]], 1, dataset)
       IN IF IsContinue(r) THEN channelLoop(st, channels, j + 1, dataset) ELSE r

\* lines 405-423: for (const orgId of user.orgs) over an array, from position k
\* on, and the final return 0x000
RECURSIVE orgLoop(_, _, _, _)
orgLoop(st, orgIds, k, dataset) ==
  IF k > Len(orgIds) THEN Return(st, 0, "", <<>>)
  \* line 408: getObjectByKey throws when the org has no record
  ELSE IF ~Has(st, getOrgKey(orgIds[k])) THEN Throw(st, "NotFound")
  ELSE LET r == channelLoop(st, ObjectKeys(st[getOrgKey(orgIds[k])].subs), 1, dataset)
       IN IF IsContinue(r) THEN orgLoop(st, orgIds, k + 1, dataset) ELSE r

\* faulty variant: a traversal that finds nothing answers the READ bitmask
queryAccessOnDataset_DefaultRead(st, caller, userId, dataset) ==
  LET r == IF ~Has(st, CHANNEL_TO_PUBS) THEN Throw(st, "NotFound")
           ELSE IF ~Has(st, getUserKey(userId)) THEN Throw(st, "NotFound")
           ELSE IF st[getUserKey(userId)].orgs.shape # "array" THEN Throw(st, "TypeError")
           ELSE orgLoop(st, st[getUserKey(userId)].orgs.list, 1, dataset)
  IN IF r.ret.status = "ok" /\ r.ret.num = 0 THEN Return(st, READ, "", <<>>) ELSE r

\* faulty variant: a missing index is answered with the zero bitmask instead of a throw
queryAccessOnDataset_SoftZero(st, caller, userId, dataset) ==
  IF ~Has(st, CHANNEL_TO_PUBS) THEN Return(st, 0, "", <<>>)
  ELSE IF ~Has(st, getUserKey(userId)) THEN Throw(st, "NotFound")
  ELSE IF st[getUserKey(userId)].orgs.shape # "array" THEN Throw(st, "TypeError")
  ELSE orgLoop(st, st[getUserKey(userId)].orgs.list, 1, dataset)

\* Lines 396-403 load the index and the user: a missing key throws.  Line 405,
\* for (const orgId of user.orgs), needs an iterable: over the plain object
\* {[orgId]: boolean} of the User type for...of throws a TypeError before the
\* loop body runs; over an array of org ids it runs the traversal.
queryAccessOnDataset(st, caller, userId, dataset) ==
  IF ~Has(st, CHANNEL_TO_PUBS) THEN Throw(st, "NotFound")
  ELSE IF ~Has(st, getUserKey(userId)) THEN Throw(st, "NotFound")
  ELSE IF st[getUserKey(userId)].orgs.shape # "array" THEN Throw(st, "TypeError")
  ELSE orgLoop(st, st[getUserKey(userId)].orgs.list, 1, dataset)

\* --------------------------------------------------------------- actions
Call(op, caller, args, access) ==
  [op |-> op, caller |-> caller, args |-> args, access |-> access]

\* the publisher list about to be written stays within the model's bound
PubsWithinBound(caller, channel) ==
  IF ~Has(state, getOrgKey(caller.msp)) THEN TRUE
  ELSE IF ~Has(state, CHANNEL_TO_PUBS) THEN TRUE
  ELSE IF channel \notin DOMAIN state[CHANNEL_TO_PUBS] THEN TRUE
  ELSE Len(state[CHANNEL_TO_PUBS][channel]) < MaxPubs

Tx_init == \E c \in Callers : LET r == init(state, c)
                              IN /\ call' = Call("init", c, <<>>, 0)
                                 /\ state' = r.state
                                 /\ ret' = r.ret
                                 /\ pending' = pending
Tx_owner == \E c \in Callers : LET r == owner(state, c)
                               IN /\ call' = Call("owner", c, <<>>, 0)
                                  /\ state' = r.state
                                  /\ ret' = r.ret
                                  /\ pending' = pending
Tx_addOrg ==
  \E c \in Callers, id \in Orgs, name \in Names, access \in Accesses :
    LET r == addOrg(state, c, id, name, access)
    IN /\ call' = Call("addOrg", c, <<id, name>>, access)
       /\ state' = r.state
       /\ ret' = r.ret
       /\ pending' = pending
Tx_updateOrgName ==
  \E c \in Callers, id \in Orgs, name \in Names :
    LET r == updateOrgName(state, c, id, name)
    IN /\ call' = Call("updateOrgName", c, <<id, name>>, 0)
       /\ state' = r.state
       /\ ret' = r.ret
       /\ pending' = pending
Tx_updateOrgAccess ==
  \E c \in Callers, id \in Orgs, access \in Accesses :
    LET r == updateOrgAccess(state, c, id, access)
    IN /\ call' = Call("updateOrgAccess", c, <<id>>, access)
       /\ state' = r.state
       /\ ret' = r.ret
       /\ pending' = pending
Tx_updateOrgDatasetAccess ==
  \E c \in Callers, id \in Orgs, dataset \in Datasets, access \in Accesses :
    LET r == updateOrgDatasetAccess(state, c, id, dataset, access)
    IN /\ call' = Call("updateOrgDatasetAccess", c, <<id, dataset>>, access)
       /\ state' = r.state
       /\ ret' = r.ret
       /\ pending' = pending
Tx_removeOrg ==
  \E c \in Callers, id \in Orgs :
    LET r == removeOrg(state, c, id)
    IN /\ call' = Call("removeOrg", c, <<id>>, 0)
       /\ state' = r.state
       /\ ret' = r.ret
       /\ pending' = pending
Tx_getOrg ==
  \E c \in Callers, id \in Orgs :
    LET r == getOrg(state, c, id)
    IN /\ call' = Call("getOrg", c, <<id>>, 0)
       /\ state' = r.state
       /\ ret' = r.ret
       /\ pending' = pending
Tx_addUser ==
  \E c \in Callers, id \in Users, name \in Names :
    LET r == addUser(state, c, id, name, "e1", "p1")
    IN /\ call' = Call("addUser", c, <<id, name, "e1", "p1">>, 0)
       /\ state' = r.state
       /\ ret' = r.ret
       /\ pending' = pending
Tx_removeUser ==
  \E c \in Callers, id \in Users :
    LET r == removeUser(state, c, id)
    IN /\ call' = Call("removeUser", c, <<id>>, 0)
       /\ state' = r.state
       /\ ret' = r.ret
       /\ pending' = pending
Tx_getUsers ==
  \E c \in Callers, orgId \in Orgs :
    LET r == getUsers(state, c, orgId)
    IN /\ call' = Call("getUsers", c, <<orgId>>, 0)
       /\ state' = r.state
       /\ ret' = r.ret
       /\ pending' = pending
Tx_getUser ==
  \E c \in Callers, orgId \in Orgs, userId \in Users :
    LET r == getUser(state, c, orgId, userId)
    IN /\ call' = Call("getUser", c, <<orgId, userId>>, 0)
       /\ state' = r.state
       /\ ret' = r.ret
       /\ pending' = pending
Tx_publishDatasetTo ==
  \E c \in Callers, dataset \in Datasets, channel \in Channels, access \in Accesses :
    /\ PubsWithinBound(c, channel)
    /\ LET r == publishDatasetTo(state, c, dataset, channel, access)
       IN /\ call' = Call("publishDatasetTo", c, <<dataset, channel>>, access)
          /\ state' = r.state
          /\ ret' = r.ret
          /\ pending' = pending
Tx_revokePublishedDataset ==
  \E c \in Callers, dataset \in Datasets, channel \in Channels, access \in Accesses :
    LET r == revokePublishedDataset(state, c, dataset, channel, access)
    IN /\ call' = Call("revokePublishedDataset", c, <<dataset, channel>>, access)
       /\ state' = r.state
       /\ ret' = r.ret
       /\ pending' = pending
Tx_subscribe ==
  \E c \in Callers, channel \in Channels :
    LET r == subscribe(state, c, channel)
    IN /\ call' = Call("subscribe", c, <<channel>>, 0)
       /\ state' = r.state
       /\ ret' = r.ret
       /\ pending' = pending
Tx_revokeSubscribing ==
  \E c \in Callers, channel \in Channels :
    LET r == revokeSubscribing(state, c, channel)
    IN /\ call' = Call("revokeSubscribing", c, <<channel>>, 0)
       /\ state' = r.state
       /\ ret' = r.ret
       /\ pending' = pending
Tx_queryAccessOnDataset ==
  \E c \in Callers, userId \in Users, dataset \in Datasets :
    LET r == queryAccessOnDataset(state, c, userId, dataset)
    IN /\ call' = Call("queryAccessOnDataset", c, <<userId, dataset>>, 0)
       /\ state' = r.state
       /\ ret' = r.ret
       /\ pending' = pending

\* ------------------------------------------------------- specifications
\* a freshly deployed contract: the world state holds no key
Init == state = EmptyMap /\ call = NoCall /\ ret = NoRet /\ pending = EmptyMap

Next ==
  \/ Tx_init
  \/ Tx_owner
  \/ Tx_addOrg
  \/ Tx_updateOrgName
  \/ Tx_updateOrgAccess
  \/ Tx_updateOrgDatasetAccess
  \/ Tx_removeOrg
  \/ Tx_getOrg
  \/ Tx_addUser
  \/ Tx_removeUser
  \/ Tx_getUsers
  \/ Tx_getUser
  \/ Tx_publishDatasetTo
  \/ Tx_revokePublishedDataset
  \/ Tx_subscribe
  \/ Tx_revokeSubscribing
  \/ Tx_queryAccessOnDataset

Spec == Init /\ [][Next]_vars

\* ------------------------------------------- ledgers for the pure query
\* queryAccessOnDataset is a read-only function of the world state.  It is
\* applied to every ledger of the data model (Org and User of the contract's
\* model file, the channel-to-publishers index) over these small sets.
LedgerOrgs == {MspName[1], MspName[2]}
Past == LedgerTime - 1
Future == LedgerTime + 1
DatasetEntries ==
  {Num(READ), Grant(READ, Future), Grant(WRITE, Future), Grant(READ, Past)}

\* the objects with keys among K and values in V
SubMaps(K, V) == UNION {[D -> V] : D \in SUBSET K}
\* the org ids a user's orgs names, and the flag it holds for one of them
ListedOrgs(orgs) ==
  IF orgs.shape = "array" THEN {orgs.list[i] : i \in DOMAIN orgs.list}
  ELSE DOMAIN orgs.map
Flag(orgs, o) == IF orgs.shape = "array" THEN TRUE ELSE orgs.map[o]
\* the lists of distinct org ids
OrgLists ==
  {l \in UNION {[1..n -> LedgerOrgs] : n \in 0..Cardinality(LedgerOrgs)} :
     \A i, j \in DOMAIN l : i # j => l[i] # l[j]}
UserOrgs == {Obj(m) : m \in SubMaps(LedgerOrgs, BOOLEAN)} \cup {Arr(l) : l \in OrgLists}
\* the strictly ascending lists of org ids of length 1..MaxPubs
PubLists ==
  {l \in UNION {[1..n -> LedgerOrgs] : n \in 1..MaxPubs} :
     \A i \in 1..(Len(l) - 1) : OrgRank(l[i]) < OrgRank(l[i + 1])}

OrgShapes == SubMaps(Channels, BOOLEAN) \X SubMaps(Datasets, DatasetEntries)

\* users and pubs of an org record agree with the user records and the index
LedgerOrg(o, shape, us, ix) ==
  [id |-> o, name |-> "n1", access |-> READ,
   users |-> [u \in {v \in DOMAIN us : o \in ListedOrgs(us[v])} |-> Flag(us[u], o)],
   pubs |-> [c \in {x \in DOMAIN ix : \E i \in DOMAIN ix[x] : ix[x][i] = o} |-> TRUE],
   subs |-> shape[1],
   datasets |-> shape[2]]

LedgerUser(u, orgs) ==
  [id |-> u, name |-> "n1", email |-> "e1", phone |-> "p1", orgs |-> orgs]

Ledger(os, us, ix) ==
  [k \in {OWNER, IS_INITIALIZED}
         \cup {getOrgKey(o) : o \in DOMAIN os}
         \cup {getUserKey(u) : u \in DOMAIN us}
         \cup (IF DOMAIN ix = {} THEN {} ELSE {CHANNEL_TO_PUBS}) |->
     IF k = OWNER THEN ClientName[1]
     ELSE IF k = IS_INITIALIZED THEN TRUE_VALUE
     ELSE IF k = CHANNEL_TO_PUBS THEN ix
     ELSE IF k[1] = ORG_KEY_PREFIX THEN LedgerOrg(k[2], os[k[2]], us, ix)
     ELSE LedgerUser(k[2], us[k[2]])]

InitLedger ==
  /\ \E os \in SubMaps(LedgerOrgs, OrgShapes),
        us \in SubMaps(Users, UserOrgs),
        ix \in SubMaps(Channels, PubLists) :
       state = Ledger(os, us, ix)
  /\ call = NoCall
  /\ ret = NoRet
  /\ pending = EmptyMap

NextQuery == Tx_queryAccessOnDataset

SpecQuery == InitLedger /\ [][NextQuery]_vars

\* ------------------------------- ledgers for the org and member operations
\* The operations on Org and User records are applied to the ledgers of the
\* data model: the model file's Org and User records, with the user's orgs the
\* object {[orgId]: boolean} the User type declares.
RecordShapes == {EmptyMap} \X SubMaps(Datasets, {Num(READ)})
RecordUserOrgs == {Obj(m) : m \in SubMaps(LedgerOrgs, BOOLEAN)}
RecordIndexes == {EmptyMap, [c \in {ChannelName[1]} |-> <<MspName[1]>>]}

InitRecords ==
  /\ \E os \in SubMaps(LedgerOrgs, RecordShapes),
        us \in SubMaps(Users, RecordUserOrgs),
        ix \in RecordIndexes :
       state = Ledger(os, us, ix)
  /\ call = NoCall
  /\ ret = NoRet
  /\ pending = EmptyMap

\* the owner's operations on Org records, and the read of one
NextOrgs ==
  \/ Tx_addOrg
  \/ Tx_updateOrgName
  \/ Tx_updateOrgAccess
  \/ Tx_updateOrgDatasetAccess
  \/ Tx_removeOrg
  \/ Tx_getOrg

SpecOrgs == InitRecords /\ [][NextOrgs]_vars

\* an org's operations on its members, and the reads of them
NextMembers ==
  \/ Tx_addUser
  \/ Tx_removeUser
  \/ Tx_getUsers
  \/ Tx_getUser

SpecMembers == InitRecords /\ [][NextMembers]_vars

\* the read-only operations, applied to ledgers of both shapes of a user's orgs
ReadShapes ==
  SubMaps({ChannelName[1]}, {TRUE}) \X SubMaps(Datasets, {Grant(READ, Future)})

InitReads ==
  /\ \E os \in SubMaps(LedgerOrgs, ReadShapes),
        us \in SubMaps(Users, UserOrgs),
        ix \in SubMaps(Channels, PubLists) :
       state = Ledger(os, us, ix)
  /\ call = NoCall
  /\ ret = NoRet
  /\ pending = EmptyMap

NextReads ==
  \/ Tx_owner
  \/ Tx_getOrg
  \/ Tx_getUsers
  \/ Tx_getUser
  \/ Tx_queryAccessOnDataset

SpecReads == InitReads /\ [][NextReads]_vars

\* an org's publications and subscriptions, applied to the ledgers whose Org
\* records hold no publication and no subscription yet
ChannelShapes == {<<EmptyMap, EmptyMap>>}
ChannelUserOrgs == {Obj([o \in {MspName[1]} |-> TRUE])}

InitChannels ==
  /\ \E os \in SubMaps(LedgerOrgs, ChannelShapes),
        us \in SubMaps(Users, ChannelUserOrgs),
        ix \in RecordIndexes :
       state = Ledger(os, us, ix)
  /\ call = NoCall
  /\ ret = NoRet
  /\ pending = EmptyMap

NextChannels ==
  \/ Tx_publishDatasetTo
  \/ Tx_revokePublishedDataset
  \/ Tx_subscribe
  \/ Tx_revokeSubscribing

SpecChannels == InitChannels /\ [][NextChannels]_vars

\* membership changes followed by queries, on ledgers of both shapes of a
\* user's orgs
InitRevocation ==
  /\ \E os \in SubMaps(LedgerOrgs, ReadShapes),
        us \in SubMaps(Users, UserOrgs),
        ix \in RecordIndexes :
       state = Ledger(os, us, ix)
  /\ call = NoCall
  /\ ret = NoRet
  /\ pending = EmptyMap

NextRevocation ==
  \/ Tx_addUser
  \/ Tx_removeUser
  \/ Tx_queryAccessOnDataset

SpecRevocation == InitRevocation /\ [][NextRevocation]_vars

\* the operations an org applies to its own record, on ledgers in which the
\* first org has no record
InitSelfService ==
  /\ \E os \in SubMaps({MspName[2]}, ChannelShapes),
        us \in SubMaps(Users, ChannelUserOrgs),
        ix \in RecordIndexes :
       state = Ledger(os, us, ix)
  /\ call = NoCall
  /\ ret = NoRet
  /\ pending = EmptyMap

NextSelfService ==
  \/ Tx_addUser
  \/ Tx_removeUser
  \/ Tx_publishDatasetTo
  \/ Tx_subscribe
  \/ Tx_revokeSubscribing

SpecSelfService == InitSelfService /\ [][NextSelfService]_vars

\* ------------------------------------------- concurrent publications
\* The ledger runs a submitted transaction in two steps.  Endorsement
\* simulates the handler against the committed world state and records the
\* keys it read and the values it wrote; nothing is committed.  Validation
\* later commits the writes, unless a key the simulation read was written by a
\* transaction committed in between: the version it read is then stale and the
\* transaction is rejected.  The other specifications run the two steps of a
\* transaction back to back.
MaxInFlight == 2

\* faulty variant: the index is written without being read
publishDatasetToReads_BlindIndex(caller) == {getOrgKey(caller.msp)}

\* the keys publishDatasetTo reads with getState: its org and the index
publishDatasetToReads(caller) == {getOrgKey(caller.msp), CHANNEL_TO_PUBS}
\* the keys publishDatasetTo writes with putState
publishDatasetToWrites(caller) == {getOrgKey(caller.msp), CHANNEL_TO_PUBS}

Proposal(caller, args, access, r) ==
  [op |-> "publishDatasetTo", caller |-> caller, args |-> args, access |-> access,
   reads |-> publishDatasetToReads(caller),
   writes |-> [k \in publishDatasetToWrites(caller) |-> r.state[k]],
   stale |-> FALSE]

\* the sequence seq without its i-th element
Without(seq, i) == [j \in 1..(Len(seq) - 1) |-> IF j < i THEN seq[j] ELSE seq[j + 1]]

\* dataset and access are not used by the handler: one value of each is drawn
Endorse_publishDatasetTo ==
  \E c \in Callers, dataset \in Datasets, channel \in Channels :
    /\ Len(pending) < MaxInFlight
    /\ PubsWithinBound(c, channel)
    /\ LET r == publishDatasetTo(state, c, dataset, channel, READ)
       IN /\ r.ret.status = "ok"
          /\ pending' = Append(pending, Proposal(c, <<dataset, channel>>, READ, r))
    /\ UNCHANGED <<state, call, ret>>

\* the world state after the writes w are applied to st
Apply(st, w) ==
  [k \in (DOMAIN st) \cup (DOMAIN w) |-> IF k \in DOMAIN w THEN w[k] ELSE st[k]]

\* the transactions in flight are ordered and validated in any order
Validate ==
  \E s \in DOMAIN pending :
    LET tx == pending[s]
        rest == Without(pending, s)
    IN /\ call' = Call(tx.op, tx.caller, tx.args, tx.access)
       /\ IF tx.stale
          THEN /\ state' = state
               /\ ret' = Throw(state, "MVCC_READ_CONFLICT").ret
               /\ pending' = rest
          ELSE /\ state' = Apply(state, tx.writes)
               /\ ret' = Done(state).ret
               /\ pending' =
                    [t \in DOMAIN rest |->
                       IF rest[t].reads \cap (DOMAIN tx.writes) # {}
                       THEN [rest[t] EXCEPT !.stale = TRUE]
                       ELSE rest[t]]

NextConcurrent ==
  \/ Endorse_publishDatasetTo
  \/ Validate

SpecConcurrent == InitChannels /\ [][NextConcurrent]_vars

\* ----------------------------------------------- concurrent initializations
\* the number of init transactions simulated and not yet validated
MaxInits == 4

\* faulty variant: the marker is written without being read
initReads_Blind == {}

\* the key init reads with getState: the marker
initReads == {IS_INITIALIZED}
\* the keys init writes with putState
initWrites == {OWNER, IS_INITIALIZED}

initProposal(caller, r) ==
  [op |-> "init", caller |-> caller, args |-> <<>>, access |-> 0,
   reads |-> initReads,
   writes |-> [k \in initWrites |-> r.state[k]],
   stale |-> FALSE]

\* a simulation that throws is answered to its client and never ordered
Endorse_init ==
  \E c \in Callers :
    LET r == init(state, c)
    IN IF r.ret.status = "ok"
       THEN /\ Len(pending) < MaxInits
            /\ pending' = Append(pending, initProposal(c, r))
            /\ UNCHANGED <<state, call, ret>>
       ELSE /\ call' = Call("init", c, <<>>, 0)
            /\ ret' = r.ret
            /\ UNCHANGED <<state, pending>>

NextInitRace ==
  \/ Endorse_init
  \/ Validate

SpecInitRace == Init /\ [][NextInitRace]_vars

\* ------------------------------------------------------- serialization
\* A JavaScript value as the serializer sees it: a scalar, or an object whose
\* properties are kept in insertion order as a sequence of <<key, value>>.
JS(v) == [t |-> "scalar", v |-> v, kv |-> <<>>]
JO(kv) == [t |-> "object", v |-> "", kv |-> kv]

\* the property names in ascending order of their code units
KeyOrder ==
  <<"Org1MSP", "Org2MSP", "access", "datasets", "email", "id", "name", "orgs",
    "phone", "pubs", "subs", "u1", "u2", "users">>
KeyRank(k) == CHOOSE i \in DOMAIN KeyOrder : KeyOrder[i] = k

\* the properties kv in ascending order of their names
SortPairs(kv) ==
  LET n == Len(kv)
      pos(i) == Cardinality({j \in 1..n : KeyRank(kv[j][1]) < KeyRank(kv[i][1])}) + 1
  IN [p \in 1..n |-> kv[CHOOSE i \in 1..n : pos(i) = p]]

\* sort-keys-recursive: a copy of the value with the properties of every object
\* in ascending order
RECURSIVE sortKeysRecursive(_)
sortKeysRecursive(x) ==
  IF x.t = "scalar" THEN x
  ELSE JO(SortPairs([i \in DOMAIN x.kv |->
                      <<x.kv[i][1], sortKeysRecursive(x.kv[i][2])>>]))

\* the text of an object whose properties are emitted in the order given
RECURSIVE Emit(_, _, _)
Emit(kv, i, text) ==
  IF i > Len(kv) THEN <<"{">> \o text \o <<"}">>
  ELSE Emit(kv, i + 1,
            text \o (IF i = 1 THEN <<>> ELSE <<",">>) \o <<kv[i][1], ":">> \o kv[i][2])

\* JSON.stringify: the properties in insertion order
RECURSIVE JSONstringify(_)
JSONstringify(x) ==
  IF x.t = "scalar" THEN <<x.v>>
  ELSE Emit([i \in DOMAIN x.kv |-> <<x.kv[i][1], JSONstringify(x.kv[i][2])>>], 1, <<>>)

\* json-stringify-deterministic: the properties of every object in ascending order
RECURSIVE stringify(_)
stringify(x) ==
  IF x.t = "scalar" THEN <<x.v>>
  ELSE Emit(SortPairs([i \in DOMAIN x.kv |-> <<x.kv[i][1], stringify(x.kv[i][2])>>]),
            1, <<>>)

\* faulty variant: the record is written with the platform's JSON.stringify
serialize_InsertionOrder(x) == JSONstringify(x)

\* Buffer.from(stringify(sortKeysRecursive(record))): the bytes written
serialize(x) == stringify(sortKeysRecursive(x))

\* the Org record as addOrg builds it, with two members, and the User record
\* as addUser builds it, a member of two orgs
OrgLiteral ==
  JO(<< <<"id", JS("Org1MSP")>>, <<"name", JS("n1")>>, <<"access", JS("16")>>,
        <<"users", JO(<< <<"u1", JS("true")>>, <<"u2", JS("false")>> >>)>>,
        <<"pubs", JO(<<>>)>>, <<"subs", JO(<<>>)>>, <<"datasets", JO(<<>>)>> >>)
UserLiteral ==
  JO(<< <<"id", JS("u1")>>, <<"name", JS("n1")>>, <<"email", JS("e1")>>,
        <<"phone", JS("p1")>>,
        <<"orgs", JO(<< <<"Org1MSP", JS("true")>>, <<"Org2MSP", JS("true")>> >>)>> >>)

\* the orders in which the elements of S can be listed
RECURSIVE Perms(_)
Perms(S) ==
  IF S = {} THEN {<<>>}
  ELSE UNION {{<<x>> \o p : p \in Perms(S \ {x})} : x \in S}

\* the values with the logical content of x: every insertion order of the
\* properties of x and of the objects nested in it
RECURSIVE Reorderings(_)
RECURSIVE ValueChoices(_, _)
ValueChoices(kv, i) ==
  IF i = 0 THEN {<<>>}
  ELSE {Append(s, v) : s \in ValueChoices(kv, i - 1), v \in Reorderings(kv[i][2])}
Reorderings(x) ==
  IF x.t = "scalar" THEN {x}
  ELSE {JO([p \in DOMAIN x.kv |-> <<x.kv[perm[p]][1], c[perm[p]]>>]) :
          perm \in Perms(DOMAIN x.kv), c \in ValueChoices(x.kv, Len(x.kv))}

\* a record built in the code's order and one with the same content built in
\* another order are each serialized
InitSerialize ==
  /\ state = EmptyMap
  /\ \E x0 \in {OrgLiteral, UserLiteral} : \E x \in Reorderings(x0) :
       call = Call("serialize", NoCall.caller, <<x, x0>>, 0)
  /\ ret = NoRet
  /\ pending = EmptyMap

Tx_serialize ==
  /\ call.op = "serialize"
  /\ ret = NoRet
  /\ ret' = Return(state, 0, "", <<serialize(call.args[1]), serialize(call.args[2])>>).ret
  /\ UNCHANGED <<state, call, pending>>

NextSerialize == Tx_serialize

SpecSerialize == InitSerialize /\ [][NextSerialize]_vars
\* ------------------------------------------------- the alternate contract
\* The UisControllerContract of src/src/controller.ts: org records hold an
\* access level and an array of user ids, and two lists name every org and
\* the admin orgs.
MaxUsers == 2

ALL_ORG_KEY == <<"org-all">>
ADMIN_ORG_KEY == <<"org-admin">>
INIT_KEY == <<"init">>
orgPrefix == "org"
GetOrgKey(orgId) == <<orgPrefix, orgId>>

\* the ids a client passes as userId: identities of clients, and plain names
UserIds == {c.id : c \in Callers} \cup Users

IdRank(id) == CHOOSE i \in 1..Len(ClientName) : ClientName[i] = id
\* sortKeysRecursive(org) sorts the users array ascending
RECURSIVE SortedUsers(_, _)
SortedUsers(list, id) ==
  IF list = <<>> THEN <<id>>
  ELSE IF IdRank(id) < IdRank(Head(list)) THEN <<id>> \o list
  ELSE <<Head(list)>> \o SortedUsers(Tail(list), id)

\* Array.prototype.indexOf, 1-based: 0 stands for the -1 of a missing element
IndexOf(list, x) ==
  IF \E i \in DOMAIN list : list[i] = x
  THEN CHOOSE i \in DOMAIN list : list[i] = x /\ \A j \in 1..(i - 1) : list[j] # x
  ELSE 0
\* list.splice(index, 1): the index -1 counts from the end and removes the last
Splice(list, index) ==
  IF list = <<>> THEN list
  ELSE Without(list, IF index = 0 THEN Len(list) ELSE index)
Includes(list, x) == \E i \in DOMAIN list : list[i] = x

\* getState(id) holds a value
OrgExists(st, id) == Has(st, id)
\* JSON.parse of the value: of the empty text of a missing key it throws
CanParse(st, key) == Has(st, key)
GetContentByKey(st, key) == st[key]
\* ADMINS.includes(getMSPID()), once the admin list is parsed
IsAdmin(st, caller) == Includes(GetContentByKey(st, ADMIN_ORG_KEY), caller.msp)

InitContract(st, caller) ==
  IF getString(st, INIT_KEY) # "" THEN Throw(st, "AlreadyInvoked")
  ELSE LET org == [id |-> caller.msp, access |-> WRITE + READ + DELETE,
                   users |-> <<caller.id>>]
           st1 == Put(st, GetOrgKey(org.id), org)
           st2 == Put(st1, ALL_ORG_KEY, <<org.id>>)
           st3 == Put(st2, ADMIN_ORG_KEY, <<org.id>>)
       IN Done(Put(st3, INIT_KEY, "initialized"))

AddOrg(st, caller, orgId, access) ==
  IF ~CanParse(st, ADMIN_ORG_KEY) THEN Throw(st, "SyntaxError")
  ELSE IF ~IsAdmin(st, caller) THEN Throw(st, "OnlyAdmin")
  ELSE IF OrgExists(st, GetOrgKey(orgId)) THEN Throw(st, "OrgExists")
  ELSE LET org == [id |-> orgId, access |-> access, users |-> <<>>]
           st1 == Put(st, GetOrgKey(orgId), org)
       IN IF ~CanParse(st1, ALL_ORG_KEY) THEN Throw(st, "SyntaxError")
          ELSE Done(Put(st1, ALL_ORG_KEY,
                        Append(GetContentByKey(st1, ALL_ORG_KEY), org.id)))

\* faulty variant: the record is deleted and the list of org ids kept
RemoveOrg_KeepsList(st, caller, orgId) ==
  IF ~CanParse(st, ADMIN_ORG_KEY) THEN Throw(st, "SyntaxError")
  ELSE IF ~IsAdmin(st, caller) THEN Throw(st, "OnlyAdmin")
  ELSE IF ~OrgExists(st, GetOrgKey(orgId)) THEN Throw(st, "NoOrg")
  ELSE Done(Del(st, GetOrgKey(orgId)))

RemoveOrg(st, caller, orgId) ==
  IF ~CanParse(st, ADMIN_ORG_KEY) THEN Throw(st, "SyntaxError")
  ELSE IF ~IsAdmin(st, caller) THEN Throw(st, "OnlyAdmin")
  ELSE IF ~OrgExists(st, GetOrgKey(orgId)) THEN Throw(st, "NoOrg")
  ELSE IF ~CanParse(st, ALL_ORG_KEY) THEN Throw(st, "SyntaxError")
  ELSE LET orgIds == GetContentByKey(st, ALL_ORG_KEY)
           index == IndexOf(orgIds, orgId)
       IN Done(Del(Put(st, ALL_ORG_KEY, Splice(orgIds, index)), GetOrgKey(orgId)))

UpdateOrgAccess(st, caller, orgId, access) ==
  IF ~OrgExists(st, GetOrgKey(orgId)) THEN Throw(st, "NoOrg")
  ELSE LET org == GetContentByKey(st, GetOrgKey(orgId))
       IN Done(Put(st, GetOrgKey(orgId), [org EXCEPT !.access = access]))

\* line 200 pushes the caller's identity; userId and access are not used
AddUser(st, caller, userId, access) ==
  LET orgKey == GetOrgKey(caller.msp)
  IN IF ~OrgExists(st, orgKey) THEN Throw(st, "NoOrg")
     ELSE LET org == GetContentByKey(st, orgKey)
          IN Done(Put(st, orgKey,
                      [org EXCEPT !.users = SortedUsers(org.users, caller.id)]))

RemoveUser(st, caller, userId) ==
  LET orgKey == GetOrgKey(caller.msp)
  IN IF ~OrgExists(st, orgKey) THEN Throw(st, "NoOrg")
     ELSE LET org == GetContentByKey(st, orgKey)
              index == IndexOf(org.users, userId)
          IN IF index >= 1
             THEN Done(Put(st, orgKey,
                           [org EXCEPT !.users = Splice(org.users, index)]))
             ELSE Done(st)

CheckUserAccess(st, caller, orgId, userId) ==
  IF ~CanParse(st, GetOrgKey(orgId)) THEN Throw(st, "SyntaxError")
  ELSE LET org == GetContentByKey(st, GetOrgKey(orgId))
       IN IF IndexOf(org.users, userId) >= 1
          THEN Return(st, org.access, "", <<>>)
          ELSE Return(st, 0, "", <<>>)

Legacy_Init ==
  \E c \in Callers :
    LET r == InitContract(state, c)
    IN /\ call' = Call("Init", c, <<>>, 0)
       /\ state' = r.state
       /\ ret' = r.ret
       /\ pending' = pending
Legacy_AddOrg ==
  \E c \in Callers, orgId \in Orgs, access \in Accesses :
    LET r == AddOrg(state, c, orgId, access)
    IN /\ call' = Call("AddOrg", c, <<orgId>>, access)
       /\ state' = r.state
       /\ ret' = r.ret
       /\ pending' = pending
Legacy_RemoveOrg ==
  \E c \in Callers, orgId \in Orgs :
    LET r == RemoveOrg(state, c, orgId)
    IN /\ call' = Call("RemoveOrg", c, <<orgId>>, 0)
       /\ state' = r.state
       /\ ret' = r.ret
       /\ pending' = pending
Legacy_UpdateOrgAccess ==
  \E c \in Callers, orgId \in Orgs, access \in Accesses :
    LET r == UpdateOrgAccess(state, c, orgId, access)
    IN /\ call' = Call("UpdateOrgAccess", c, <<orgId>>, access)
       /\ state' = r.state
       /\ ret' = r.ret
       /\ pending' = pending
\* the users array about to be written stays within the model's bound
UsersWithinBound(caller) ==
  IF ~Has(state, GetOrgKey(caller.msp)) THEN TRUE
  ELSE Len(state[GetOrgKey(caller.msp)].users) < MaxUsers
\* access is not used by the handler: one value is drawn
Legacy_AddUser ==
  \E c \in Callers, userId \in UserIds :
    /\ UsersWithinBound(c)
    /\ LET r == AddUser(state, c, userId, READ)
       IN /\ call' = Call("AddUser", c, <<userId>>, READ)
          /\ state' = r.state
          /\ ret' = r.ret
          /\ pending' = pending
Legacy_RemoveUser ==
  \E c \in Callers, userId \in UserIds :
    LET r == RemoveUser(state, c, userId)
    IN /\ call' = Call("RemoveUser", c, <<userId>>, 0)
       /\ state' = r.state
       /\ ret' = r.ret
       /\ pending' = pending
Legacy_CheckUserAccess ==
  \E c \in Callers, orgId \in Orgs, userId \in UserIds :
    LET r == CheckUserAccess(state, c, orgId, userId)
    IN /\ call' = Call("CheckUserAccess", c, <<orgId, userId>>, 0)
       /\ state' = r.state
       /\ ret' = r.ret
       /\ pending' = pending

NextLegacy ==
  \/ Legacy_Init
  \/ Legacy_AddOrg
  \/ Legacy_RemoveOrg
  \/ Legacy_UpdateOrgAccess
  \/ Legacy_AddUser
  \/ Legacy_RemoveUser
  \/ Legacy_CheckUserAccess

SpecLegacy == Init /\ [][NextLegacy]_vars

\* the operations on the org records and the list of their ids
NextLegacyOrgs ==
  \/ Legacy_Init
  \/ Legacy_AddOrg
  \/ Legacy_RemoveOrg
  \/ Legacy_UpdateOrgAccess

SpecLegacyOrgs == Init /\ [][NextLegacyOrgs]_vars
\* ============================================================== claims
\* ------------------------------------------ paths of the access resolution
Queried(u, d) == call.op = "queryAccessOnDataset" /\ call.args = <<u, d>>
Returned(n) == ret.status = "ok" /\ ret.num = n
Index(st) == st[CHANNEL_TO_PUBS]
QueryReady(st, u) == Has(st, CHANNEL_TO_PUBS) /\ Has(st, getUserKey(u))

\* a hop <<b, c, i>>: org b is a key of the user's orgs, channel c is a key of
\* b's subs, and the i-th publisher of c holds an entry for dataset d
Hops(st, u, d) ==
  IF ~QueryReady(st, u) THEN {}
  ELSE {p \in ListedOrgs(st[getUserKey(u)].orgs) \X Channels \X (1..MaxPubs) :
          /\ Has(st, getOrgKey(p[1]))
          /\ p[2] \in DOMAIN st[getOrgKey(p[1])].subs
          /\ p[2] \in DOMAIN Index(st)
          /\ p[3] \in DOMAIN Index(st)[p[2]]
          /\ Has(st, getOrgKey(Index(st)[p[2]][p[3]]))
          /\ d \in DOMAIN st[getOrgKey(Index(st)[p[2]][p[3]])].datasets}
EntryOf(st, p, d) == st[getOrgKey(Index(st)[p[2]][p[3]])].datasets[d]
MemberActive(st, u, p) == Flag(st[getUserKey(u)].orgs, p[1])
SubActive(st, p) == st[getOrgKey(p[1])].subs[p[2]]
Expired(e) == e.expiredAt # NEVER /\ e.expiredAt < LedgerTime
\* the hops whose membership and subscription flags are true and whose grant
\* has not expired
Live(st, u, d) ==
  {p \in Hops(st, u, d) :
     MemberActive(st, u, p) /\ SubActive(st, p) /\ ~Expired(EntryOf(st, p, d))}
\* the position of org o in the iteration of a user's orgs
OrgPos(orgs, o) ==
  IF orgs.shape = "array" THEN CHOOSE i \in DOMAIN orgs.list : orgs.list[i] = o
  ELSE OrgRank(o)
\* traversal order: the user's orgs, then the org's channels, then the list
Before(orgs, p, q) ==
  \/ OrgPos(orgs, p[1]) < OrgPos(orgs, q[1])
  \/ p[1] = q[1] /\ ChannelRank(p[2]) < ChannelRank(q[2])
  \/ p[1] = q[1] /\ p[2] = q[2] /\ p[3] < q[3]
\* the access of the grant the traversal of user u finds first among S
FirstAccess(st, u, d, S) ==
  LET p == CHOOSE x \in S : \A q \in S : x = q \/ Before(st[getUserKey(u)].orgs, x, q)
  IN EntryOf(st, p, d).access
\* an org id without an Org record that the traversal meets: an org of the
\* user, or a publisher of a channel in the subs of an org of the user
Dangling(st, u) ==
  /\ QueryReady(st, u)
  /\ \E b \in ListedOrgs(st[getUserKey(u)].orgs) :
       \/ ~Has(st, getOrgKey(b))
       \/ \E c \in (DOMAIN st[getOrgKey(b)].subs) \cap (DOMAIN Index(st)) :
            \E i \in DOMAIN Index(st)[c] : ~Has(st, getOrgKey(Index(st)[c][i]))

\* C1: when exactly one path leads from user u to a grant for dataset d (u lists
\* org B, B subscribes to c, the index lists A under c, A holds an unexpired
\* grant for d with access a), queryAccessOnDataset(u, d) returns a.
C1_SinglePathReturnsGrant ==
  \A u \in Users, d \in Datasets :
    (/\ Queried(u, d)
     /\ Cardinality(Hops(state, u, d)) = 1
     /\ Live(state, u, d) = Hops(state, u, d))
    => Returned(FirstAccess(state, u, d, Live(state, u, d)))

\* C2: when the index and the user record exist and no path leads from the
\* user to a grant for the dataset, the query returns 0 and does not fail.
C2_NoPathReturnsZero ==
  \A u \in Users, d \in Datasets :
    (Queried(u, d) /\ QueryReady(state, u) /\ Hops(state, u, d) = {})
    => Returned(0)

\* C3: the query fails with NotFound, and never returns 0, when the user
\* record is absent and when the channel-to-publishers index is absent.
C3_MissingUserOrIndexFails ==
  \A u \in Users, d \in Datasets :
    (Queried(u, d) /\ ~QueryReady(state, u)) => ret.status = "NotFound"
\* a known user was queried on a ledger without the index
C3_Witness ==
  \E u \in Users, d \in Datasets :
    /\ Queried(u, d)
    /\ Has(state, getUserKey(u))
    /\ ~Has(state, CHANNEL_TO_PUBS)
    /\ ret.status = "NotFound"

\* C4: an org id of the user's orgs, or a publisher id of a channel's list,
\* that has no Org record is skipped: the query does not fail and returns the
\* grant reachable through the remaining paths, or 0 if there is none.
C4_MissingOrgSkipped ==
  \A u \in Users, d \in Datasets :
    (Queried(u, d) /\ Dangling(state, u))
    => IF Live(state, u, d) = {} THEN Returned(0)
       ELSE Returned(FirstAccess(state, u, d, Live(state, u, d)))

\* C5: only channels whose subs flag is true are traversed: when every path to
\* the dataset runs through a revoked subscription (subs[c] = false), the
\* query resolves to 0.
C5_RevokedSubscriptionResolvesZero ==
  \A u \in Users, d \in Datasets :
    (/\ Queried(u, d)
     /\ Hops(state, u, d) # {}
     /\ \A p \in Hops(state, u, d) : ~SubActive(state, p))
    => Returned(0)

\* C6: an expired grant is never returned: when the only reachable grant for
\* the dataset has expiredAt earlier than the ledger time, the query returns 0.
C6_ExpiredGrantResolvesZero ==
  \A u \in Users, d \in Datasets :
    (/\ Queried(u, d)
     /\ Hops(state, u, d) # {}
     /\ \A p \in Hops(state, u, d) :
          /\ MemberActive(state, u, p)
          /\ SubActive(state, p)
          /\ Expired(EntryOf(state, p, d)))
    => Returned(0)

\* C7: first match: when two paths reach the dataset with different access
\* bitmasks, the query returns the access of the grant found first in the
\* traversal order, not a union or maximum.
C7_FirstMatchReturned ==
  \A u \in Users, d \in Datasets :
    (/\ Queried(u, d)
     /\ \E p, q \in Live(state, u, d) :
          EntryOf(state, p, d).access # EntryOf(state, q, d).access)
    => Returned(FirstAccess(state, u, d, Live(state, u, d)))

\* ------------------------------------------------------- ownership guard
OwnerRestricted ==
  {"addOrg", "updateOrgName", "updateOrgAccess", "updateOrgDatasetAccess", "removeOrg"}

\* C8: initialization is exactly-once: once an init has succeeded, every later
\* init by any caller fails and leaves the stored owner and the marker unchanged.
C8_InitExactlyOnce ==
  [][(Has(state, IS_INITIALIZED) /\ call'.op = "init")
       => /\ ret'.status = "AlreadyInitialized"
          /\ getString(state', OWNER) = getString(state, OWNER)
          /\ getString(state', IS_INITIALIZED) = getString(state, IS_INITIALIZED)]_vars
\* a second init, by a caller other than the owner, was rejected
C8_Witness ==
  /\ call.op = "init"
  /\ ret.status = "AlreadyInitialized"
  /\ getString(state, OWNER) # ""
  /\ call.caller.id # getString(state, OWNER)

\* C9: the stored owner is unset until an init succeeds, that init sets it to
\* its caller's principal id, and no operation changes it afterwards.
C9_OwnerSetOnce ==
  /\ getString(state, OWNER) = ""
  /\ [][/\ (getString(state, OWNER) = "" /\ getString(state', OWNER) # "")
             => /\ call'.op = "init"
                /\ ret'.status = "ok"
                /\ getString(state', OWNER) = call'.caller.id
        /\ getString(state, OWNER) # ""
             => getString(state', OWNER) = getString(state, OWNER)]_vars
\* the owner is set and an owner operation has committed after it
C9_Witness ==
  /\ getString(state, OWNER) # ""
  /\ call.op = "removeOrg"
  /\ ret.status = "ok"
  /\ call.caller.id = getString(state, OWNER)

\* C10: after init, an owner-restricted operation invoked by a caller whose
\* principal id differs from the stored owner fails with PermissionDenied and
\* leaves the whole store unchanged.
C10_NonOwnerDenied ==
  [][(/\ Has(state, IS_INITIALIZED)
      /\ call'.op \in OwnerRestricted
      /\ call'.caller.id # getString(state, OWNER))
       => (ret'.status = "PermissionDenied" /\ state' = state)]_vars
\* a caller other than the owner was denied after init
C10_Witness ==
  /\ Has(state, IS_INITIALIZED)
  /\ call.op \in OwnerRestricted
  /\ call.caller.id # getString(state, OWNER)
  /\ ret.status = "PermissionDenied"

\* C11: before any init has succeeded, every owner-restricted operation fails
\* with PermissionDenied for every caller and writes nothing.
C11_DeniedBeforeInit ==
  [][(~Has(state, IS_INITIALIZED) /\ call'.op \in OwnerRestricted)
       => (ret'.status = "PermissionDenied" /\ state' = state)]_vars
\* an owner-restricted operation was denied on a ledger no init has written
C11_Witness ==
  /\ ~Has(state, IS_INITIALIZED)
  /\ ~Has(state, OWNER)
  /\ call.op \in OwnerRestricted
  /\ ret.status = "PermissionDenied"

\* ------------------------------------------------------------ org records
ByOwner(st, c) == c.caller.id = getString(st, OWNER)
\* the record createOrg(id, name, access) is to store
NewOrg(id, name, access) ==
  [id |-> id, name |-> name, access |-> access,
   users |-> EmptyMap, pubs |-> EmptyMap, subs |-> EmptyMap, datasets |-> EmptyMap]

\* C12: addOrg(id, name, access) invoked by the owner for an id that has no
\* record succeeds and stores at the org key a new Org with that id, name and
\* access and with empty users, pubs, subs and datasets maps.
C12_CreateOrgStores ==
  [][(/\ call'.op = "addOrg"
      /\ ByOwner(state, call')
      /\ ~Has(state, getOrgKey(call'.args[1])))
       => /\ ret'.status = "ok"
          /\ state' = Put(state, getOrgKey(call'.args[1]),
                          NewOrg(call'.args[1], call'.args[2], call'.access))]_vars

\* C13: addOrg(x, ...) by the owner for an id that already has a record fails
\* with AlreadyExists and leaves the store unchanged; and an addOrg(x, ...) that
\* immediately follows an addOrg(x, ...) of the owner fails with AlreadyExists.
C13_DuplicateOrgRejected ==
  [][(call'.op = "addOrg" /\ ByOwner(state, call'))
       => /\ Has(state, getOrgKey(call'.args[1]))
               => (ret'.status = "AlreadyExists" /\ state' = state)
          /\ (/\ call.op = "addOrg"
              /\ ByOwner(state, call)
              /\ call.args[1] = call'.args[1])
               => ret'.status = "AlreadyExists"]_vars

\* every key but k holds in t what it holds in s
SameBut(s, t, k) ==
  /\ (DOMAIN t) \ {k} = (DOMAIN s) \ {k}
  /\ \A x \in (DOMAIN s) \ {k} : t[x] = s[x]

\* C14: updateOrgName(id, name) and updateOrgAccess(id, access) of the owner
\* fail with NotFound and write nothing when the org has no record; otherwise
\* they replace exactly that one field and leave every other field of the org
\* and every other record unchanged.
C14_OrgFieldReplaced ==
  [][(call'.op \in {"updateOrgName", "updateOrgAccess"} /\ ByOwner(state, call'))
       => LET key == getOrgKey(call'.args[1])
          IN IF ~Has(state, key)
             THEN ret'.status = "NotFound" /\ state' = state
             ELSE /\ ret'.status = "ok"
                  /\ Has(state', key)
                  /\ SameBut(state, state', key)
                  /\ state'[key] =
                       IF call'.op = "updateOrgName"
                       THEN [state[key] EXCEPT !.name = call'.args[2]]
                       ELSE [state[key] EXCEPT !.access = call'.access]]_vars
\* an org that has a member and a dataset entry was renamed
C14_Witness ==
  /\ call.op = "updateOrgName"
  /\ ret.status = "ok"
  /\ call.args[2] = "n2"
  /\ state[getOrgKey(call.args[1])].name = "n2"
  /\ state[getOrgKey(call.args[1])].users # EmptyMap
  /\ state[getOrgKey(call.args[1])].datasets # EmptyMap

\* C15: updateOrgDatasetAccess upserts datasets[dataset] of the org to the
\* grant object {access, expiredAt}: afterwards the entry is a grant holding
\* exactly the given access, and the org's other dataset entries are unchanged.
C15_DatasetGrantUpserted ==
  [][(/\ call'.op = "updateOrgDatasetAccess"
      /\ ByOwner(state, call')
      /\ Has(state, getOrgKey(call'.args[1])))
       => LET key == getOrgKey(call'.args[1])
              d == call'.args[2]
          IN /\ ret'.status = "ok"
             /\ d \in DOMAIN state'[key].datasets
             /\ state'[key].datasets[d].shape = "grant"
             /\ state'[key].datasets[d].access = call'.access
             /\ SameBut(state[key].datasets, state'[key].datasets, d)]_vars

\* C16: removeOrg(id) of the owner succeeds whether or not the org exists,
\* removes only the record at that org key, and leaves every User record and
\* the channel-to-publishers index unchanged, entries naming the org included.
C16_RemoveOrgNoCascade ==
  [][(call'.op = "removeOrg" /\ ByOwner(state, call'))
       => LET key == getOrgKey(call'.args[1])
          IN /\ ret'.status = "ok"
             /\ ~Has(state', key)
             /\ SameBut(state, state', key)]_vars
\* an org was removed that a user record and the index still name
C16_Witness ==
  /\ call.op = "removeOrg"
  /\ ret.status = "ok"
  /\ ~Has(state, getOrgKey(call.args[1]))
  /\ \E u \in Users :
       /\ Has(state, getUserKey(u))
       /\ Truthy(state[getUserKey(u)].orgs.map, call.args[1])
  /\ Has(state, CHANNEL_TO_PUBS)
  /\ \E c \in DOMAIN state[CHANNEL_TO_PUBS] :
       \E i \in DOMAIN state[CHANNEL_TO_PUBS][c] :
         state[CHANNEL_TO_PUBS][c][i] = call.args[1]

\* C17: getOrg(id) returns the stored record when the org exists and fails with
\* NotFound when no record exists at the org key; it never returns an empty
\* result.
C17_ReadOrgOrNotFound ==
  call.op = "getOrg"
    => IF Has(state, getOrgKey(call.args[1]))
       THEN ret.status = "ok" /\ ret.docs = <<state[getOrgKey(call.args[1])]>>
       ELSE ret.status = "NotFound"

\* ----------------------------------------------------------- user records
\* C18: after addUser(id, name, email, phone) succeeds for a caller of org O,
\* O's record has users[id] = true and the User record exists with that id,
\* name, email and phone and with orgs[O] = true.
C18_AddUserRecords ==
  (call.op = "addUser" /\ ret.status = "ok")
    => LET O == call.caller.msp
           id == call.args[1]
       IN /\ Has(state, getOrgKey(O))
          /\ Truthy(state[getOrgKey(O)].users, id)
          /\ Has(state, getUserKey(id))
          /\ state[getUserKey(id)].id = id
          /\ state[getUserKey(id)].name = call.args[2]
          /\ state[getUserKey(id)].email = call.args[3]
          /\ state[getUserKey(id)].phone = call.args[4]
          /\ Truthy(state[getUserKey(id)].orgs.map, O)

\* C19: a user may belong to several orgs: when org B calls addUser for a user
\* whose record has orgs[A] = true, the call succeeds and the record then has
\* orgs[A] = true and orgs[B] = true and the name B gave.
C19_UserJoinsSecondOrg ==
  [][(/\ call'.op = "addUser"
      /\ Has(state, getOrgKey(call'.caller.msp))
      /\ Has(state, getUserKey(call'.args[1]))
      /\ \E A \in Orgs \ {call'.caller.msp} :
           Truthy(state[getUserKey(call'.args[1])].orgs.map, A))
       => /\ ret'.status = "ok"
          /\ state'[getUserKey(call'.args[1])].name = call'.args[2]
          /\ Truthy(state'[getUserKey(call'.args[1])].orgs.map, call'.caller.msp)
          /\ \A A \in Orgs :
               Truthy(state[getUserKey(call'.args[1])].orgs.map, A)
                 => Truthy(state'[getUserKey(call'.args[1])].orgs.map, A)]_vars

\* C20: after removeUser(id) by org O that lists the user as active, O.users[id]
\* is false and, if the User record exists, it still exists, its orgs[O] is
\* false and its flags for the other orgs are unchanged.
C20_RemoveUserFlipsBoth ==
  [][(/\ call'.op = "removeUser"
      /\ Has(state, getOrgKey(call'.caller.msp))
      /\ Truthy(state[getOrgKey(call'.caller.msp)].users, call'.args[1]))
       => LET O == call'.caller.msp
              id == call'.args[1]
          IN /\ ret'.status = "ok"
             /\ state'[getOrgKey(O)].users[id] = FALSE
             /\ Has(state, getUserKey(id))
                  => /\ Has(state', getUserKey(id))
                     /\ O \in DOMAIN state'[getUserKey(id)].orgs.map
                     /\ state'[getUserKey(id)].orgs.map[O] = FALSE
                     /\ SameBut(state[getUserKey(id)].orgs.map,
                                state'[getUserKey(id)].orgs.map, O)]_vars

\* C21: removeUser(id) by an org whose users[id] is not true (never added, or
\* already revoked) leaves the whole store unchanged; hence a removeUser(id)
\* that immediately follows a removeUser(id) of the same org changes nothing.
C21_RemoveUserIdempotent ==
  [][call'.op = "removeUser"
       => /\ ~(/\ Has(state, getOrgKey(call'.caller.msp))
               /\ Truthy(state[getOrgKey(call'.caller.msp)].users, call'.args[1]))
               => state' = state
          /\ (/\ call.op = "removeUser"
              /\ call.caller.msp = call'.caller.msp
              /\ call.args = call'.args)
               => state' = state]_vars
\* a removeUser returned on an org record whose flag for the user is false
C21_Witness ==
  /\ call.op = "removeUser"
  /\ ret.status = "ok"
  /\ Has(state, getOrgKey(call.caller.msp))
  /\ call.args[1] \in DOMAIN state[getOrgKey(call.caller.msp)].users
  /\ ~state[getOrgKey(call.caller.msp)].users[call.args[1]]

\* ------------------------------------------- publications and subscriptions
\* the publisher list of channel c in store st: empty when the index or the
\* channel's list is absent
PubsOf(st, c) ==
  IF Has(st, CHANNEL_TO_PUBS) /\ c \in DOMAIN st[CHANNEL_TO_PUBS]
  THEN st[CHANNEL_TO_PUBS][c] ELSE <<>>
\* how many times org o is listed in list l
Count(l, o) == Cardinality({i \in DOMAIN l : l[i] = o})

\* C22: after publishDatasetTo(dataset, channel, access) succeeds for a caller
\* of org O, O's record has pubs[channel] = true and the index lists O under
\* channel, the list or the index being created if absent, while the publisher
\* lists of all other channels are unchanged.
C22_PublishRecords ==
  [][(call'.op = "publishDatasetTo" /\ ret'.status = "ok")
       => LET O == call'.caller.msp
              ch == call'.args[2]
          IN /\ Has(state', getOrgKey(O))
             /\ Truthy(state'[getOrgKey(O)].pubs, ch)
             /\ Has(state', CHANNEL_TO_PUBS)
             /\ ch \in DOMAIN state'[CHANNEL_TO_PUBS]
             /\ Count(PubsOf(state', ch), O) > 0
             /\ \A c \in Channels \ {ch} :
                  /\ PubsOf(state', c) = PubsOf(state, c)
                  /\ c \in DOMAIN state'[CHANNEL_TO_PUBS]
                       <=> (Has(state, CHANNEL_TO_PUBS) /\ c \in DOMAIN state[CHANNEL_TO_PUBS])]_vars
\* an org published to a channel that had no list while another channel had one
C22_Witness ==
  /\ call.op = "publishDatasetTo"
  /\ ret.status = "ok"
  /\ PubsOf(state, call.args[2]) = <<call.caller.msp>>
  /\ \E c \in Channels \ {call.args[2]} : PubsOf(state, c) # <<>>

IsPrefix(l, m) == Len(l) <= Len(m) /\ \A i \in DOMAIN l : m[i] = l[i]

\* C23: the index is append-only without de-duplication: across every
\* committed transition each channel's publisher list of the old state is a
\* prefix of the channel's list of the new state, and a publishDatasetTo by an
\* org already listed for the channel appends a further entry.
C23_IndexAppendOnly ==
  [][/\ \A c \in Channels : IsPrefix(PubsOf(state, c), PubsOf(state', c))
     /\ (call'.op = "publishDatasetTo" /\ ret'.status = "ok")
          => Count(PubsOf(state', call'.args[2]), call'.caller.msp)
               = Count(PubsOf(state, call'.args[2]), call'.caller.msp) + 1]_vars

\* C24: after revokePublishedDataset(dataset, channel, access) by org O, O no
\* longer appears in the channel's publisher list and O's pubs[channel] flag
\* is cleared.
C24_RevokePublishedRemoves ==
  [][(call'.op = "revokePublishedDataset" /\ ret'.status = "ok")
       => LET O == call'.caller.msp
              ch == call'.args[2]
          IN /\ Count(PubsOf(state', ch), O) = 0
             /\ Has(state', getOrgKey(O)) => ~Truthy(state'[getOrgKey(O)].pubs, ch)]_vars

\* C25: subscribe(channel) sets subs[channel] = true and
\* revokeSubscribing(channel) sets subs[channel] = false in the calling org's
\* own record, the entry being kept; neither changes another field of that
\* record, another org's record, a User record or the index.
C25_SubscriptionFlagOnly ==
  [][(/\ call'.op \in {"subscribe", "revokeSubscribing"}
      /\ Has(state, getOrgKey(call'.caller.msp)))
       => LET key == getOrgKey(call'.caller.msp)
              ch == call'.args[1]
          IN /\ ret'.status = "ok"
             /\ Has(state', key)
             /\ ch \in DOMAIN state'[key].subs
             /\ state'[key].subs[ch] = (call'.op = "subscribe")
             /\ SameBut(state[key].subs, state'[key].subs, ch)
             /\ state'[key] = [state[key] EXCEPT !.subs = state'[key].subs]
             /\ SameBut(state, state', key)]_vars
\* a subscription was revoked on a ledger that holds the index and a user
C25_Witness ==
  /\ call.op = "revokeSubscribing"
  /\ ret.status = "ok"
  /\ call.args[1] \in DOMAIN state[getOrgKey(call.caller.msp)].subs
  /\ ~state[getOrgKey(call.caller.msp)].subs[call.args[1]]
  /\ \E c \in Channels \ {call.args[1]} :
       Truthy(state[getOrgKey(call.caller.msp)].subs, c)
  /\ Has(state, CHANNEL_TO_PUBS)
  /\ \E u \in Users : Has(state, getUserKey(u))
  /\ \E o \in Orgs \ {call.caller.msp} : Has(state, getOrgKey(o))

\* ------------------------------------------------------- commits and reads
\* the statuses of a call that returned: a value, or the JavaScript undefined
Returns == {"ok", "undefined"}
Failed(r) == r.status \notin Returns \cup {""}

ReadOnly == {"owner", "getOrg", "getUser", "getUsers", "queryAccessOnDataset"}

\* C27: the read-only operations (owner, getOrg, getUser, getUsers,
\* queryAccessOnDataset) commit nothing: for every state and every argument
\* the store after the call equals the store before it, whether the call
\* returns a value or fails.
C27_ReadsCommitNothing ==
  [][call'.op \in ReadOnly => state' = state]_vars
\* a query returned a grant's access
C27_Witness ==
  /\ call.op = "queryAccessOnDataset"
  /\ ret.status = "ok"
  /\ ret.num \in Accesses

\* C29: getUsers(orgId) and getUser(orgId, userId) are rejected when the
\* caller's organization is not orgId, and return data only to a caller whose
\* organization is orgId.
C29_SelfLookupOnly ==
  (call.op \in {"getUsers", "getUser"} /\ call.caller.msp # call.args[1])
    => Failed(ret)

\* --------------------------------------------------------- serialization
\* C30: deterministic serialization: the bytes written for an Org or User
\* record depend only on its logical content: two records with the same fields
\* and values but different field insertion order serialize to identical bytes.
C30_SerializationDeterministic ==
  (call.op = "serialize" /\ ret.status = "ok") => ret.docs[1] = ret.docs[2]
\* a record whose insertion order differs from the code's was serialized
C30_Witness ==
  /\ call.op = "serialize"
  /\ ret.status = "ok"
  /\ call.args[1] # call.args[2]
  /\ call.args[1].kv[1][1] = "users"
  /\ call.args[1].kv[1][2].kv[1][1] = "u2"
  /\ ret.docs[1] = JSONstringify(sortKeysRecursive(call.args[2]))

\* ------------------------------------------------ concurrent publications
\* C28: no lost update on the shared index: of the publishDatasetTo
\* transactions simulated concurrently against the same version of the index,
\* validation rejects those that read a stale version, so every committed
\* publish adds exactly one entry to the index as committed before it, and a
\* rejected one adds none.
C28_NoLostUpdate ==
  [][Len(pending') < Len(pending)
       => \/ /\ ret'.status = "MVCC_READ_CONFLICT"
             /\ state' = state
          \/ /\ ret'.status = "ok"
             /\ \A c \in Channels, o \in Orgs :
                  Count(PubsOf(state', c), o)
                    = Count(PubsOf(state, c), o)
                        + (IF c = call'.args[2] /\ o = call'.caller.msp
                           THEN 1 ELSE 0)]_vars
\* a publish was rejected after a concurrent publish of another org committed
C28_Witness ==
  /\ call.op = "publishDatasetTo"
  /\ ret.status = "MVCC_READ_CONFLICT"
  /\ Count(PubsOf(state, call.args[2]), call.caller.msp) = 0
  /\ PubsOf(state, call.args[2]) # <<>>

\* ------------------------------------------------ self-service operations
SelfService ==
  {"addUser", "removeUser", "publishDatasetTo", "subscribe", "revokeSubscribing"}

\* C31: addUser, removeUser, publishDatasetTo, subscribe and revokeSubscribing
\* fail with NotFound when the calling organization has no Org record, and then
\* leave the whole store unchanged, the User records and the index included.
C31_NoOrgRecordNotFound ==
  [][(call'.op \in SelfService /\ ~Has(state, getOrgKey(call'.caller.msp)))
       => (ret'.status = "NotFound" /\ state' = state)]_vars
\* a publish of an org without a record failed on a ledger that holds a user
\* record and the index
C31_Witness ==
  /\ call.op = "publishDatasetTo"
  /\ ret.status = "NotFound"
  /\ ~Has(state, getOrgKey(call.caller.msp))
  /\ Has(state, CHANNEL_TO_PUBS)
  /\ \E u \in Users : Has(state, getUserKey(u))

\* ----------------------------------------------- concurrent initializations
\* C32: of the init transactions simulated concurrently against an
\* uninitialized store at most one commits, and the stored owner is the
\* identity of the caller whose init committed: an init commits only on a store
\* without owner and marker, and a stored owner is never replaced.
C32_OneInitCommits ==
  [][/\ (Len(pending') < Len(pending) /\ call'.op = "init" /\ ret'.status = "ok")
          => /\ ~Has(state, OWNER)
             /\ ~Has(state, IS_INITIALIZED)
             /\ getString(state', OWNER) = call'.caller.id
     /\ (Len(pending') < Len(pending) /\ ret'.status # "ok") => state' = state
     /\ Has(state, OWNER) => getString(state', OWNER) = getString(state, OWNER)]_vars
\* the init of one caller was rejected after the init of another caller,
\* simulated against the same empty store, committed
C32_Witness ==
  /\ call.op = "init"
  /\ ret.status = "MVCC_READ_CONFLICT"
  /\ Has(state, OWNER)
  /\ getString(state, OWNER) # call.caller.id

\* ------------------------------------------ soundness of the resolution
\* C33: whenever queryAccessOnDataset(u, d) returns a non-zero value v, there
\* are an org O named in u's orgs, a channel c in O's subs and an org P listed
\* under c in the index such that P's datasets hold an entry for d whose
\* access is v.
C33_ResolutionSound ==
  \A u \in Users, d \in Datasets :
    (Queried(u, d) /\ ret.status = "ok" /\ ret.num # 0)
      => \E p \in Hops(state, u, d) :
           /\ EntryOf(state, p, d).shape = "grant"
           /\ EntryOf(state, p, d).access = ret.num
\* a query returned a non-zero bitmask
C33_Witness ==
  \E u \in Users, d \in Datasets :
    /\ Queried(u, d)
    /\ ret.status = "ok"
    /\ ret.num # 0
    /\ Hops(state, u, d) # {}

\* ------------------------------------------------ revocation of membership
\* C34: if user u could reach dataset d only through org O, then after O calls
\* removeUser(u) every later queryAccessOnDataset(u, d) returns 0 until some
\* org adds u again; stated for the query that follows the removal at once.
C34_RemovedMemberResolvesZero ==
  [][\A u \in Users, d \in Datasets :
       (/\ call.op = "removeUser"
        /\ call.args = <<u>>
        /\ ret.status = "ok"
        /\ Hops(state, u, d) # {}
        /\ \A p \in Hops(state, u, d) : p[1] = call.caller.msp
        /\ call'.op = "queryAccessOnDataset"
        /\ call'.args = <<u, d>>)
         => (ret'.status = "ok" /\ ret'.num = 0)]_vars

\* ------------------------------------------------- the alternate contract
\* the list stored under the all-orgs key, and the ids of the orgs with a record
AllOrgIds(st) == IF Has(st, ALL_ORG_KEY) THEN st[ALL_ORG_KEY] ELSE <<>>
OrgRecords(st) == {o \in Orgs : Has(st, GetOrgKey(o))}

\* C35: after any sequence of Init, AddOrg and RemoveOrg calls the list under
\* the all-orgs key holds, without duplicates, exactly the ids of the orgs that
\* have a record; AddOrg(x) followed by RemoveOrg(x) restores the list and the
\* set of org records.
C35_OrgListMatchesRecords ==
  /\ {AllOrgIds(state)[i] : i \in DOMAIN AllOrgIds(state)} = OrgRecords(state)
  /\ \A i, j \in DOMAIN AllOrgIds(state) :
       i # j => AllOrgIds(state)[i] # AllOrgIds(state)[j]
  /\ \A c \in Callers, d \in Callers, x \in Orgs, a \in Accesses :
       LET added == AddOrg(state, c, x, a)
           removed == RemoveOrg(added.state, d, x)
       IN (added.ret.status = "ok" /\ removed.ret.status = "ok")
            => /\ AllOrgIds(removed.state) = AllOrgIds(state)
               /\ OrgRecords(removed.state) = OrgRecords(state)
\* the org of Init was removed and added again after another org was added
C35_Witness ==
  /\ call.op = "AddOrg"
  /\ ret.status = "ok"
  /\ AllOrgIds(state) = <<MspName[2], MspName[1]>>
  /\ state[ADMIN_ORG_KEY] = <<MspName[1]>>

\* the caller's organization is in the admin list written by Init
InAdminList(st, caller) ==
  Has(st, ADMIN_ORG_KEY) /\ Includes(st[ADMIN_ORG_KEY], caller.msp)

\* C36: AddOrg, RemoveOrg and UpdateOrgAccess are rejected, with the store
\* unchanged, unless the caller's organization id is in the admin list written
\* by Init.
C36_AdminOnly ==
  [][(call'.op \in {"AddOrg", "RemoveOrg", "UpdateOrgAccess"}
        /\ ~InAdminList(state, call'.caller))
       => (ret'.status # "ok" /\ state' = state)]_vars

\* C37: after a caller of org O invokes AddUser(userId, access),
\* CheckUserAccess(O, userId) returns O's access level, and after a subsequent
\* RemoveUser(userId) by O it returns 0, for every userId and any number of
\* preceding AddUser calls; stated for the check that follows the call at once.
C37_AddedUserHasOrgAccess ==
  [][/\ (/\ call.op = "AddUser"
          /\ ret.status = "ok"
          /\ call'.op = "CheckUserAccess"
          /\ call'.args = <<call.caller.msp, call.args[1]>>)
         => /\ ret'.status = "ok"
            /\ ret'.num = state[GetOrgKey(call.caller.msp)].access
     /\ (/\ call.op = "RemoveUser"
          /\ ret.status = "ok"
          /\ call'.op = "CheckUserAccess"
          /\ call'.args = <<call.caller.msp, call.args[1]>>)
         => /\ ret'.status = "ok"
            /\ ret'.num = 0]_vars
====
